---- MODULE Spec2Model ----
(***************************************************************************)
(* ctty-rs: resolution of a process's controlling terminal.                *)
(*                                                                         *)
(* Two variants of a two-operation contract (src/src/lib.rs):              *)
(*   linux::get_ctty_dev / linux::get_path_for_dev                         *)
(*   bsd::get_ctty_dev   / bsd::get_path_for_dev                           *)
(*                                                                         *)
(* Text is modelled as a sequence of one-character strings (one byte per   *)
(* character: the alphabets used are ASCII, plus the byte 0xFF on the      *)
(* BSD side).  A u64 is modelled as its two 32-bit halves, each held as    *)
(* the signed reading of its bit pattern: [hi |-> 0, lo |-> 5] is 5 and    *)
(* [hi |-> -1, lo |-> -1] is 0xFFFFFFFF_FFFFFFFF.                          *)
(***************************************************************************)
EXTENDS Integers, Sequences, FiniteSets, TLC

VARIABLES
    parts,      \* how the content of /proc/self/stat was put together
    proc_stat,  \* outcome of opening and reading /proc/self/stat
    prim,       \* value the native _get_ctty_dev() returns
    devname,    \* what the native devname_r() returns
    fs,         \* the candidates the glob patterns enumerate, in order
    dev,        \* the dev argument of get_path_for_dev
    pc,         \* position of the running get_path_for_dev call
    i,          \* index into patterns
    j,          \* index of the next entry of glob(patterns[i])
    linux_dev,  \* result of linux::get_ctty_dev
    bsd_dev,    \* result of bsd::get_ctty_dev
    path_res    \* result of get_path_for_dev

vars == <<parts, proc_stat, prim, devname, fs, dev, pc, i, j,
          linux_dev, bsd_dev, path_res>>

----------------------------------------------------------------------------
(* Results: Result<T, CttyError>, or a panic of the calling thread.        *)

Pending == [kind |-> "Pending", val |-> <<>>]

Ok(v) == [kind |-> "Ok", val |-> v]

Err(e) == [kind |-> "Err", val |-> e]

Panic == [kind |-> "Panic", val |-> <<>>]

NotFound == "NotFound"

SystemDataParseFailure == "SystemDataParseFailure"

SystemPermissionFailure == "SystemPermissionFailure"

IOError == "IOError"

----------------------------------------------------------------------------
(* Integers.                                                               *)

MaxI32 == 2147483647

\* `dev_int as u64`: an i32 is sign-extended to 64 bits.
AsU64(v) == [hi |-> IF v < 0 THEN -1 ELSE 0, lo |-> v]

Digits == <<"0", "1", "2", "3", "4", "5", "6", "7", "8", "9">>

IsDigit(c) == \E d \in 1..10 : Digits[d] = c

DigitVal(c) == (CHOOSE d \in 1..10 : Digits[d] = c) - 1

\* Accumulate the digits of s onto acc; sign is 1 or -1.  Overflow of the
\* i32 range and any non-digit make the parse fail.
RECURSIVE ParseDigits(_, _, _)
ParseDigits(s, acc, sign) ==
    IF s = <<>> THEN [ok |-> TRUE, val |-> acc]
    ELSE IF ~IsDigit(Head(s)) THEN [ok |-> FALSE, val |-> 0]
    ELSE LET d == DigitVal(Head(s))
         IN  IF sign = 1
             THEN IF acc > (MaxI32 - d) \div 10
                  THEN [ok |-> FALSE, val |-> 0]
                  ELSE ParseDigits(Tail(s), acc * 10 + d, sign)
             ELSE IF -acc > (IF d = 0 THEN MaxI32 ELSE MaxI32 - (d - 1)) \div 10
                  THEN [ok |-> FALSE, val |-> 0]
                  ELSE ParseDigits(Tail(s), acc * 10 - d, sign)

\* str::parse::<i32>: an optional sign, then at least one digit.
ParseI32(s) ==
    IF s = <<>> THEN [ok |-> FALSE, val |-> 0]
    ELSE IF Head(s) \in {"+", "-"}
         THEN IF Tail(s) = <<>> THEN [ok |-> FALSE, val |-> 0]
              ELSE ParseDigits(Tail(s), 0, IF Head(s) = "-" THEN -1 ELSE 1)
         ELSE ParseDigits(s, 0, 1)

----------------------------------------------------------------------------
(* Text.                                                                   *)

IsWhitespace(c) == c \in {" ", "\n", "\t"}

\* Mutation of rfind: the first occurrence instead of the last.
find_first(s, ch) ==
    IF \E k \in 1..Len(s) : s[k] = ch
    THEN [some |-> TRUE,
          idx |-> (CHOOSE k \in 1..Len(s) :
                      s[k] = ch /\ \A m \in 1..(k-1) : s[m] # ch) - 1]
    ELSE [some |-> FALSE, idx |-> 0]

\* str::rfind(ch): zero-based index of the last occurrence, if any.
rfind(s, ch) ==
    IF \E k \in 1..Len(s) : s[k] = ch
    THEN [some |-> TRUE,
          idx |-> (CHOOSE k \in 1..Len(s) :
                      s[k] = ch /\ \A m \in (k+1)..Len(s) : s[m] # ch) - 1]
    ELSE [some |-> FALSE, idx |-> 0]

unwrap_or(opt, default) == IF opt.some THEN opt.idx ELSE default

\* str::split_whitespace: the maximal runs of non-whitespace, in order.
RECURSIVE SplitFrom(_, _, _)
SplitFrom(s, cur, out) ==
    IF s = <<>> THEN (IF cur = <<>> THEN out ELSE Append(out, cur))
    ELSE IF IsWhitespace(Head(s))
         THEN SplitFrom(Tail(s), <<>>, IF cur = <<>> THEN out ELSE Append(out, cur))
         ELSE SplitFrom(Tail(s), Append(cur, Head(s)), out)

split_whitespace(s) == SplitFrom(s, <<>>, <<>>)

\* Iterator::nth(n) on a fresh iterator: the element at zero-based offset n.
nth(seq, n) ==
    IF n + 1 <= Len(seq) THEN [some |-> TRUE, item |-> seq[n + 1]]
    ELSE [some |-> FALSE, item |-> <<>>]

----------------------------------------------------------------------------
(* The content of /proc/self/stat.                                         *)
(*                                                                         *)
(* A record is `pid (name) state ppid pgrp session tty_nr tpgid ...`.  It  *)
(* is put together from its fields so that the field the kernel wrote as   *)
(* tty_nr is known, and it may be cut short at any length.  Every field    *)
(* carries the value it denotes as an i32, when it denotes one.            *)

Field(text, valid, val) == [text |-> text, valid |-> valid, val |-> val]

Pids == { <<"7">>, <<"1", "2", "3">> }

\* Process names: plain, with spaces, with ')' and with a whole fake tail.
Names == { <<"a">>,
           <<"m", "y", " ", "p">>,
           <<"a", ")">>,
           <<")", " ", "b">>,
           <<"(", "a", ")", " ", "R", " ", "4", " ", "4", " ", "4", " ", "6", " ", "6">> }

\* What separates the closing ')' from the state field (the kernel: " ").
Seps == { <<" ">>, <<" ", " ">>, <<>> }

TtyFields ==
    { Field(<<"3", "4", "8", "1", "6">>, TRUE, 34816),
      Field(<<"0">>, TRUE, 0),
      Field(<<"+", "7">>, TRUE, 7),
      Field(<<"-", "1">>, TRUE, -1),
      Field(<<"2", "1", "4", "7", "4", "8", "3", "6", "4", "7">>, TRUE, MaxI32),
      Field(<<"2", "1", "4", "7", "4", "8", "3", "6", "4", "8">>, FALSE, 0),
      Field(<<"-">>, FALSE, 0),
      Field(<<"x">>, FALSE, 0) }

StateField == Field(<<"S">>, FALSE, 0)

PpidField == Field(<<"1">>, TRUE, 1)

PgrpField == Field(<<"2">>, TRUE, 2)

SessionField == Field(<<"3">>, TRUE, 3)

TpgidField == Field(<<"9">>, TRUE, 9)

\* The fields after the name, in the kernel's order.
FieldsOf(p) == <<StateField, PpidField, PgrpField, SessionField, p.tty, TpgidField>>

RECURSIVE JoinFields(_)
JoinFields(fields) ==
    IF fields = <<>> THEN <<>>
    ELSE IF Len(fields) = 1 THEN Head(fields).text
    ELSE Head(fields).text \o <<" ">> \o JoinFields(Tail(fields))

\* The part of the record that follows the closing ')'.
TailOf(p) == p.sep \o JoinFields(FieldsOf(p)) \o <<"\n">>

\* The whole record, newline-terminated.  A record without its opening
\* part starts with the ')' itself.
FullRecord(p) ==
    (IF p.open THEN p.pid \o <<" ", "(">> \o p.name ELSE <<>>)
        \o <<")">> \o TailOf(p)

\* The record as read: the whole record less its last p.drop characters.
RecordOf(p) == SubSeq(FullRecord(p), 1, Len(FullRecord(p)) - p.drop)

WholeParts ==
    [pid : Pids, name : Names, sep : Seps, tty : TtyFields,
     open : {TRUE}, drop : {0}]
    \cup [pid : {<<>>}, name : {<<>>}, sep : Seps, tty : TtyFields,
          open : {FALSE}, drop : {0}]

\* Every way the record is put together and cut short.
PartsSet ==
    UNION { { [p EXCEPT !.drop = d] : d \in 0..Len(FullRecord(p)) } :
            p \in WholeParts }

----------------------------------------------------------------------------
(* linux::get_ctty_dev                                                     *)

\* &stat[start_idx..]: panics when start_idx is past the end of the string.
SliceFrom(s, start_idx) ==
    IF start_idx > Len(s) THEN [ok |-> FALSE, str |-> <<>>]
    ELSE [ok |-> TRUE, str |-> SubSeq(s, start_idx + 1, Len(s))]

\* Mutation of skip_delimiter: the delimiter and two more characters.
skip_delimiter_and_two(start_idx) == start_idx + 3

\* start_idx += 2
skip_delimiter(start_idx) == start_idx + 2

\* Mutation of cast_result: identifier 0 reported as "no terminal".
cast_result_zero_not_found(dev_int) ==
    IF dev_int = 0 THEN Err(NotFound) ELSE Ok(AsU64(dev_int))

\* Ok(dev_int as u64)
cast_result(dev_int) == Ok(AsU64(dev_int))

linux_get_ctty_dev(f) ==
    IF ~f.ok THEN Err(IOError)
    ELSE LET stat == f.data
             found_idx == unwrap_or(rfind(stat, ")"), 0)
         IN  IF found_idx = 0 THEN Err(SystemDataParseFailure)
             ELSE LET start_idx == skip_delimiter(found_idx)
                      values_str == SliceFrom(stat, start_idx)
                  IN  IF ~values_str.ok THEN Panic
                      ELSE LET values == split_whitespace(values_str.str)
                               devtok == nth(values, 4)
                           IN  IF ~devtok.some THEN Err(SystemDataParseFailure)
                               ELSE LET dev_int == ParseI32(devtok.item)
                                    IN  IF ~dev_int.ok
                                        THEN Err(SystemDataParseFailure)
                                        ELSE cast_result(dev_int.val)

LinuxGetCttyDev ==
    /\ pc = "idle"
    /\ linux_dev = Pending
    /\ linux_dev' = linux_get_ctty_dev(proc_stat)
    /\ UNCHANGED <<parts, proc_stat, prim, devname, fs, dev, pc, i, j,
                   bsd_dev, path_res>>

----------------------------------------------------------------------------
(* bsd::get_ctty_dev                                                       *)

Zero64 == [hi |-> 0, lo |-> 0]

\* Values the native primitive returns: 0 for "not found", else a dev_t.
PrimValues ==
    { Zero64, [hi |-> 0, lo |-> 34816], [hi |-> 1, lo |-> 5], [hi |-> 1, lo |-> 0] }

\* Mutation of bsd_get_ctty_dev: only the low 32 bits are tested.
bsd_get_ctty_dev_low_half(res) ==
    IF res.lo = 0 THEN Err(NotFound) ELSE Ok(res)

bsd_get_ctty_dev(res) ==
    IF res = Zero64 THEN Err(NotFound) ELSE Ok(res)

BsdGetCttyDev ==
    /\ pc = "idle"
    /\ bsd_dev = Pending
    /\ bsd_dev' = bsd_get_ctty_dev(prim)
    /\ UNCHANGED <<parts, proc_stat, prim, devname, fs, dev, pc, i, j,
                   linux_dev, path_res>>

----------------------------------------------------------------------------
(* linux::get_path_for_dev                                                 *)
(*                                                                         *)
(* fs holds, for each glob pattern, the entries its iterator yields, in    *)
(* the iterator's order.  An entry is a GlobError (glob_ok = FALSE) or a   *)
(* path; stat of the path fails (stat_ok = FALSE: the node is gone or      *)
(* unreadable by then) or yields its metadata: st_rdev, the device the     *)
(* node stands for, st_dev, the device the node lies on, and its file      *)
(* type.  utf8 tells whether Path::to_str yields Some.                     *)

MaxPts == 2

PtsPattern == "/dev/pts/*"

TtyPattern == "/dev/tty"

\* Mutation of patterns: the legacy path is probed first.
patterns_tty_first == <<TtyPattern, PtsPattern>>

patterns == <<PtsPattern, TtyPattern>>

Dev34816 == [hi |-> 0, lo |-> 34816]

Dev1280 == [hi |-> 0, lo |-> 1280]

\* st_dev of the nodes: the filesystem they lie on, never a terminal.
DevOfFs == [hi |-> 0, lo |-> 24]

Rdevs == { Dev34816, Dev1280 }

NodeTypes == { "chr", "blk" }

GlobErrEntry(path) ==
    [path |-> path, glob_ok |-> FALSE, stat_ok |-> FALSE, st_rdev |-> Zero64,
     st_dev |-> Zero64, type |-> "none", utf8 |-> TRUE]

StatErrEntry(path) ==
    [path |-> path, glob_ok |-> TRUE, stat_ok |-> FALSE, st_rdev |-> Zero64,
     st_dev |-> Zero64, type |-> "none", utf8 |-> TRUE]

NodeEntry(path, rdev, type, utf8) ==
    [path |-> path, glob_ok |-> TRUE, stat_ok |-> TRUE, st_rdev |-> rdev,
     st_dev |-> DevOfFs, type |-> type, utf8 |-> utf8]

EntriesAt(path, utf8s) ==
    { GlobErrEntry(path), StatErrEntry(path) }
    \cup { NodeEntry(path, r, t, u) : r \in Rdevs, t \in NodeTypes, u \in utf8s }

\* The k-th path the pattern /dev/pts/* yields.
PtsPath(k) == <<"/dev/pts/", k - 1>>

TtyPath == <<"/dev/tty">>

\* What glob("/dev/pts/*") yields: up to MaxPts entries.
PtsListings ==
    UNION { { l \in [1..n -> UNION { EntriesAt(PtsPath(k), BOOLEAN) : k \in 1..n }] :
                \A k \in 1..n : l[k].path = PtsPath(k) } : n \in 0..MaxPts }

\* What glob("/dev/tty") yields: nothing, or the one literal path.
TtyListings == { <<>> } \cup { <<e>> : e \in EntriesAt(TtyPath, {TRUE}) }

FsSet == { [q \in {PtsPattern, TtyPattern} |->
              IF q = PtsPattern THEN pl ELSE tl] :
           pl \in PtsListings, tl \in TtyListings }

NoFs == [q \in {PtsPattern, TtyPattern} |-> <<>>]

Continue == [act |-> "continue", res |-> Pending]

Return(r) == [act |-> "return", res |-> r]

\* Mutation of rdev_matches: the device the node lies on is compared.
st_dev_matches(d, st) == d = st.st_dev

\* dev == stat.st_rdev
rdev_matches(d, st) == d = st.st_rdev

\* Mutation of stat_failed: a failing stat ends the call with an IOError.
stat_failed_is_fatal(entry) == Return(Err(IOError))

\* Err(_) => continue, of match stat(&path)
stat_failed(entry) == Continue

\* One turn of the inner loop body on an entry of the glob iterator.
visit_entry(d, entry) ==
    IF ~entry.glob_ok THEN Continue
    ELSE IF ~entry.stat_ok THEN stat_failed(entry)
    ELSE IF rdev_matches(d, entry)
         THEN IF entry.utf8 THEN Return(Ok(entry.path)) ELSE Return(Panic)
         ELSE Continue

\* A caller passes any device identifier.
Devs == { Dev34816, Dev1280, DevOfFs, Zero64 }

CallDirect ==
    /\ pc = "idle"
    /\ linux_dev = Pending
    /\ \E d \in Devs : dev' = d
    /\ pc' = "for_i"
    /\ i' = 0
    /\ j' = 0
    /\ UNCHANGED <<parts, proc_stat, prim, devname, fs, linux_dev, bsd_dev,
                   path_res>>

\* let dev = get_ctty_dev().unwrap(); get_path_for_dev(dev)
CallWithCtty ==
    /\ pc = "idle"
    /\ linux_dev.kind = "Ok"
    /\ dev' = linux_dev.val
    /\ pc' = "for_i"
    /\ i' = 0
    /\ j' = 0
    /\ UNCHANGED <<parts, proc_stat, prim, devname, fs, linux_dev, bsd_dev,
                   path_res>>

\* for i in 0..patterns.len(): start glob(patterns[i]), or fall out of the
\* loop to Err(NotFound).  glob() fails only on a malformed pattern and both
\* patterns are well-formed literals, so its unwrap() never panics.
ForPattern ==
    /\ pc = "for_i"
    /\ IF i < Len(patterns)
       THEN /\ pc' = "for_entry"
            /\ j' = 0
            /\ UNCHANGED path_res
       ELSE /\ pc' = "done"
            /\ path_res' = Err(NotFound)
            /\ UNCHANGED j
    /\ UNCHANGED <<parts, proc_stat, prim, devname, fs, dev, i, linux_dev,
                   bsd_dev>>

\* for entry in glob(patterns[i]): take the next entry, or end the pattern.
ForEntry ==
    /\ pc = "for_entry"
    /\ LET entries == fs[patterns[i + 1]]
       IN  IF j < Len(entries)
           THEN LET out == visit_entry(dev, entries[j + 1])
                IN  IF out.act = "return"
                    THEN /\ path_res' = out.res
                         /\ pc' = "done"
                         /\ UNCHANGED <<i, j>>
                    ELSE /\ j' = j + 1
                         /\ UNCHANGED <<i, pc, path_res>>
           ELSE /\ i' = i + 1
                /\ pc' = "for_i"
                /\ UNCHANGED <<j, path_res>>
    /\ UNCHANGED <<parts, proc_stat, prim, devname, fs, dev, linux_dev,
                   bsd_dev>>

----------------------------------------------------------------------------
(* bsd::get_path_for_dev                                                   *)
(*                                                                         *)
(* devname_r returns NULL or a pointer to a NUL-terminated byte string.    *)
(* Bytes are the ASCII characters below and 0xFF, which no UTF-8 text      *)
(* holds.                                                                  *)

MaxNameLen == 3

InvalidByte == "0xFF"

ReplacementChar == "U+FFFD"

NameBytes == { "?", "#", "t", "0", InvalidByte }

NullPtr == [null |-> TRUE, bytes |-> <<>>]

StrPtr(b) == [null |-> FALSE, bytes |-> b]

DevnameResults ==
    { NullPtr } \cup
    UNION { { StrPtr(b) : b \in [1..n -> NameBytes] } : n \in 0..MaxNameLen }

\* *res as u8: the first byte of the string, its NUL terminator if empty.
FirstByte(res) == IF res.bytes = <<>> THEN "NUL" ELSE res.bytes[1]

\* CStr::to_string_lossy: every byte that is not part of valid UTF-8 is
\* replaced by U+FFFD; the rest is kept.
to_string_lossy(b) ==
    [k \in 1..Len(b) |-> IF b[k] = InvalidByte THEN ReplacementChar ELSE b[k]]

DevPrefix == <<"/", "d", "e", "v", "/">>

\* Mutation of is_failure: the '#' sentinel is not recognised.
is_failure_without_hash(res) == res.null \/ FirstByte(res) = "?"

\* res.is_null() || *res as u8 == b'?' || *res as u8 == b'#'
is_failure(res) == res.null \/ FirstByte(res) = "?" \/ FirstByte(res) = "#"

bsd_get_path_for_dev(res) ==
    IF is_failure(res) THEN Err(NotFound)
    ELSE LET res_owned == to_string_lossy(res.bytes)
         IN  Ok(DevPrefix \o res_owned)

BsdCallDirect ==
    /\ pc = "idle"
    /\ bsd_dev = Pending
    /\ \E d \in PrimValues : dev' = d
    /\ pc' = "devname_r"
    /\ UNCHANGED <<parts, proc_stat, prim, devname, fs, i, j, linux_dev,
                   bsd_dev, path_res>>

\* get_path_for_dev(get_ctty_dev().unwrap())
BsdCallWithCtty ==
    /\ pc = "idle"
    /\ bsd_dev.kind = "Ok"
    /\ dev' = bsd_dev.val
    /\ pc' = "devname_r"
    /\ UNCHANGED <<parts, proc_stat, prim, devname, fs, i, j, linux_dev,
                   bsd_dev, path_res>>

BsdGetPathForDev ==
    /\ pc = "devname_r"
    /\ path_res' = bsd_get_path_for_dev(devname)
    /\ pc' = "done"
    /\ UNCHANGED <<parts, proc_stat, prim, devname, fs, dev, i, j, linux_dev,
                   bsd_dev>>

----------------------------------------------------------------------------
(* Specifications: the device-identifier resolvers of both variants        *)
(* (SpecDev), the Linux path resolver fed directly and by get_ctty_dev     *)
(* (SpecPath), and the BSD variant (SpecBsd).                              *)

InitDev ==
    /\ parts \in PartsSet
    /\ proc_stat \in { [ok |-> TRUE, data |-> RecordOf(parts)],
                       [ok |-> FALSE, data |-> <<>>] }
    /\ prim \in PrimValues
    /\ devname = NullPtr
    /\ fs = NoFs
    /\ dev = Zero64
    /\ pc = "idle"
    /\ i = 0
    /\ j = 0
    /\ linux_dev = Pending
    /\ bsd_dev = Pending
    /\ path_res = Pending

NextDev == LinuxGetCttyDev \/ BsdGetCttyDev

SpecDev == InitDev /\ [][NextDev]_vars

\* The records of processes the composed call is run for: whole records of
\* the kernel's form.
PathParts ==
    { p \in WholeParts :
        /\ p.open /\ p.sep = <<" ">> /\ p.pid = <<"7">>
        /\ p.name \in { <<"a">>, <<")", " ", "b">> }
        /\ p.tty.valid /\ p.tty.val \in {0, 34816} }

InitPath ==
    /\ parts \in PathParts
    /\ proc_stat = [ok |-> TRUE, data |-> RecordOf(parts)]
    /\ prim = Zero64
    /\ devname = NullPtr
    /\ fs \in FsSet
    /\ dev = Zero64
    /\ pc = "idle"
    /\ i = 0
    /\ j = 0
    /\ linux_dev = Pending
    /\ bsd_dev = Pending
    /\ path_res = Pending

NextPath == LinuxGetCttyDev \/ CallDirect \/ CallWithCtty \/ ForPattern \/ ForEntry

SpecPath == InitPath /\ [][NextPath]_vars

NoParts == [pid |-> <<>>, name |-> <<>>, sep |-> <<>>,
            tty |-> Field(<<>>, FALSE, 0), open |-> FALSE, drop |-> 0]

InitBsd ==
    /\ parts = NoParts
    /\ proc_stat = [ok |-> FALSE, data |-> <<>>]
    /\ prim \in PrimValues
    /\ devname \in DevnameResults
    /\ fs = NoFs
    /\ dev = Zero64
    /\ pc = "idle"
    /\ i = 0
    /\ j = 0
    /\ linux_dev = Pending
    /\ bsd_dev = Pending
    /\ path_res = Pending

NextBsd == BsdGetCttyDev \/ BsdCallDirect \/ BsdCallWithCtty \/ BsdGetPathForDev

SpecBsd == InitBsd /\ [][NextBsd]_vars

----------------------------------------------------------------------------
(* Properties of linux::get_ctty_dev and bsd::get_ctty_dev (SpecDev).      *)

LinuxDone == linux_dev # Pending

BsdDevDone == bsd_dev # Pending

\* The record has the kernel's form up to and including tty_nr: opening
\* part, one space after the closing ')', and nothing cut out of the five
\* fields state..tty_nr.
KernelForm(p) ==
    /\ p.open
    /\ p.sep = <<" ">>
    /\ p.drop <= Len(TpgidField.text) + 2

\* The same record with a process name free of ')' and spaces.
WithPlainName(p) == [p EXCEPT !.name = <<"a">>]

\* What a field yields once it is taken as the identifier.
FieldResult(fld) ==
    IF fld.valid THEN Ok(AsU64(fld.val)) ELSE Err(SystemDataParseFailure)

\* C1: for every record of the kernel's form with a valid tty_nr, whatever
\* spaces or ')' the process name holds, get_ctty_dev returns the tty_nr
\* field (widened to u64), which is what it returns for the same record
\* with a name that holds no ')'.
C1_LastParenDelimits ==
    (LinuxDone /\ proc_stat.ok /\ KernelForm(parts) /\ parts.tty.valid)
        => /\ linux_dev = Ok(AsU64(parts.tty.val))
           /\ linux_dev = linux_get_ctty_dev(
                  [ok |-> TRUE, data |-> RecordOf(WithPlainName(parts))])

\* The call has returned the tty_nr of a record whose name holds a ')'
\* followed by a fake run of fields.
C1_Witness ==
    /\ LinuxDone /\ proc_stat.ok /\ KernelForm(parts)
    /\ \E k \in 1..Len(parts.name) : parts.name[k] = ")"
    /\ Len(parts.name) > 10
    /\ parts.tty.val = 34816
    /\ linux_dev = Ok(AsU64(34816))

\* The tokens that follow the last ')' of a record (none without a ')').
TokensAfterDelimiter(rec) ==
    LET r == rfind(rec, ")")
    IN  IF ~r.some THEN <<>>
        ELSE split_whitespace(SubSeq(rec, r.idx + 2, Len(rec)))

HasParen(rec) == \E k \in 1..Len(rec) : rec[k] = ")"

\* C2: every record that holds a ')' and fewer than 5 tokens after the
\* delimiter yields SystemDataParseFailure, never a panic.
C2_ShortRecordIsParseFailure ==
    (LinuxDone /\ proc_stat.ok /\ HasParen(proc_stat.data)
       /\ Len(TokensAfterDelimiter(proc_stat.data)) < 5)
        => linux_dev = Err(SystemDataParseFailure)

\* The fields a tokenization starting `skipped` characters after the ')'
\* sees whole, given that the state field is one character long.
FieldsSeenAfter(p, skipped) ==
    IF skipped > Len(p.sep) THEN Tail(FieldsOf(p)) ELSE FieldsOf(p)

\* C9 as stated: the delimiter and the TWO characters after it are skipped
\* and the token at offset 4 of the rest is the result.
C9_SkipsDelimiterAndTwo ==
    (LinuxDone /\ proc_stat.ok /\ parts.open /\ parts.drop = 0)
        => linux_dev = FieldResult(FieldsSeenAfter(parts, 2)[5])

\* C9 as amended: the tokenization starts two positions after the ')', that
\* is after the delimiter and the ONE character that follows it; the token
\* at zero-based offset 4, parsed as an i32 and widened, is the result, and
\* a token that is no i32 is a SystemDataParseFailure.
C9_StartsTwoAfterDelimiter ==
    (LinuxDone /\ proc_stat.ok /\ parts.open /\ parts.drop = 0)
        => linux_dev = FieldResult(FieldsSeenAfter(parts, 1)[5])

\* The call has returned tty_nr, not tpgid, of a whole record in which one
\* space follows the ')'.
C9_Witness ==
    /\ LinuxDone /\ proc_stat.ok /\ parts.open /\ parts.drop = 0
    /\ parts.sep = <<" ">>
    /\ parts.tty.val = 34816
    /\ linux_dev = Ok(AsU64(34816))
    /\ linux_dev # Ok(AsU64(TpgidField.val))

\* C10: the Linux variant never reports NotFound or SystemPermissionFailure
\* and turns a tty_nr of 0 into Ok(0), while the BSD variant turns the
\* identifier 0 into NotFound.
C10_VariantsDisagreeOnZero ==
    /\ linux_dev.kind = "Err"
         => linux_dev.val \notin {NotFound, SystemPermissionFailure}
    /\ (LinuxDone /\ proc_stat.ok /\ KernelForm(parts) /\ parts.tty.valid
          /\ parts.tty.val = 0) => linux_dev = Ok(Zero64)
    /\ (BsdDevDone /\ prim = Zero64) => bsd_dev = Err(NotFound)

\* Both variants have answered for a process without a controlling
\* terminal, and they differ.
C10_Witness ==
    /\ proc_stat.ok /\ KernelForm(parts) /\ parts.tty.val = 0 /\ parts.tty.valid
    /\ prim = Zero64
    /\ linux_dev = Ok(Zero64)
    /\ bsd_dev = Err(NotFound)

----------------------------------------------------------------------------
(* Properties of linux::get_path_for_dev (SpecPath).                       *)

PathDone == pc = "done" /\ path_res # Pending

\* A candidate is named by the rank of its pattern in the documented order
\* (1: /dev/pts/*, 2: /dev/tty) and its rank in that pattern's enumeration.
Candidates ==
    { <<1, k>> : k \in 1..Len(fs[PtsPattern]) }
    \cup { <<2, k>> : k \in 1..Len(fs[TtyPattern]) }

EntryAt(c) == IF c[1] = 1 THEN fs[PtsPattern][c[2]] ELSE fs[TtyPattern][c[2]]

Before(c1, c2) == c1[1] < c2[1] \/ (c1[1] = c2[1] /\ c1[2] < c2[2])

\* The candidate enumerates, stats and reports the target identifier.
Matching(c) ==
    /\ EntryAt(c).glob_ok
    /\ EntryAt(c).stat_ok
    /\ EntryAt(c).st_rdev = dev

FirstMatching(c) ==
    /\ c \in Candidates
    /\ Matching(c)
    /\ \A c2 \in Candidates : Before(c2, c) => ~Matching(c2)

\* C3: the path returned is that of the first matching candidate in the
\* order /dev/pts/* (in enumeration order), then /dev/tty; no later
\* matching candidate is returned while an earlier one exists.
C3_FirstMatchInOrder ==
    (PathDone /\ path_res.kind = "Ok")
        => \E c \in Candidates :
               FirstMatching(c) /\ path_res.val = EntryAt(c).path

\* Two nodes under /dev/pts and /dev/tty all report the target, and the
\* first of them was returned.
C3_Witness ==
    /\ PathDone
    /\ Len(fs[PtsPattern]) = 2
    /\ Matching(<<1, 2>>) /\ ~Matching(<<1, 1>>)
    /\ <<2, 1>> \in Candidates /\ Matching(<<2, 1>>)
    /\ path_res = Ok(PtsPath(2))

\* C4: candidates that fail to enumerate or to stat are skipped and the
\* scan goes on (a match behind them is still found); with no statable
\* candidate reporting the target the result is NotFound; no other error
\* kind and no panic comes out of a scan without a match.
C4_FailuresSkippedThenNotFound ==
    /\ (PathDone /\ ~\E c \in Candidates : Matching(c))
           => path_res = Err(NotFound)
    /\ (PathDone /\ \E c \in Candidates : FirstMatching(c) /\ EntryAt(c).utf8)
           => path_res.kind = "Ok"
    /\ (PathDone /\ path_res.kind = "Err") => path_res.val = NotFound

\* A scan over a GlobError, a node whose stat fails and a node of another
\* device ended in NotFound.
C4_Witness ==
    /\ PathDone
    /\ Len(fs[PtsPattern]) = 2
    /\ ~EntryAt(<<1, 1>>).glob_ok
    /\ EntryAt(<<1, 2>>).glob_ok /\ ~EntryAt(<<1, 2>>).stat_ok
    /\ <<2, 1>> \in Candidates /\ EntryAt(<<2, 1>>).stat_ok
    /\ path_res = Err(NotFound)

\* C5: whenever get_path_for_dev(d) returns Ok(p), the metadata of node p
\* reports st_rdev = d; with d taken from get_ctty_dev, the path's own
\* identifier is the one that was resolved.
C5_RoundTrip ==
    (PathDone /\ path_res.kind = "Ok")
        => \E c \in Candidates :
              /\ EntryAt(c).path = path_res.val
              /\ EntryAt(c).stat_ok
              /\ EntryAt(c).st_rdev = dev
              /\ linux_dev.kind = "Ok" => EntryAt(c).st_rdev = linux_dev.val

\* The identifier get_ctty_dev resolved was mapped to a path.
C5_Witness ==
    /\ PathDone
    /\ linux_dev = Ok(Dev34816)
    /\ dev = Dev34816
    /\ path_res.kind = "Ok"

\* The process has a real controlling terminal: its record carries the
\* identifier of a terminal whose character device node is among the
\* candidates under /dev/pts, and every candidate path is valid UTF-8.
RealCtty ==
    /\ proc_stat.ok /\ KernelForm(parts) /\ parts.tty.valid
    /\ parts.tty.val # 0
    /\ \E c \in Candidates :
          /\ c[1] = 1
          /\ EntryAt(c).glob_ok /\ EntryAt(c).stat_ok
          /\ EntryAt(c).type = "chr"
          /\ EntryAt(c).st_rdev = AsU64(parts.tty.val)
    /\ \A c \in Candidates : EntryAt(c).utf8

\* C6: for a process with a real controlling terminal, get_ctty_dev then
\* get_path_for_dev succeeds and the path names a character device.
C6_ResolvesToCharDevice ==
    (RealCtty /\ PathDone /\ linux_dev.kind = "Ok" /\ dev = linux_dev.val)
        => /\ path_res.kind = "Ok"
           /\ \E c \in Candidates :
                 /\ EntryAt(c).path = path_res.val
                 /\ EntryAt(c).stat_ok
                 /\ EntryAt(c).type = "chr"

----------------------------------------------------------------------------
(* Properties of the BSD variant (SpecBsd).                                *)

BsdPathDone == pc = "done" /\ path_res # Pending

\* C7: bsd::get_ctty_dev is NotFound exactly when the primitive returned
\* 0, else Ok of the primitive's value; there is no other error kind.
C7_ZeroIsNotFound ==
    BsdDevDone
        => /\ (bsd_dev = Err(NotFound)) <=> (prim = Zero64)
           /\ prim # Zero64 => bsd_dev = Ok(prim)
           /\ bsd_dev.kind \in {"Ok", "Err"}
           /\ bsd_dev.kind = "Err" => bsd_dev.val = NotFound

\* A value whose low half alone is 0 was passed through unchanged.
C7_Witness ==
    /\ BsdDevDone
    /\ prim = [hi |-> 1, lo |-> 0]
    /\ bsd_dev = Ok(prim)

Sentinel(res) ==
    \/ res.null
    \/ Len(res.bytes) > 0 /\ res.bytes[1] \in {"?", "#"}

====
